---- MODULE Spec2Model ----
(***************************************************************************)
(* Model of lernd's Prolog-fact parser (lernd/parser.py) and of the        *)
(* problem assembler setup_custom (lernd/experiments.py).                  *)
(*                                                                         *)
(* A Python str is modelled as a sequence of one-character strings, so     *)
(* that tokenisation, whitespace skipping and re-serialisation are         *)
(* computed character by character as pyparsing and the f-strings do.      *)
(***************************************************************************)
EXTENDS Integers, Sequences, FiniteSets, TLC

VARIABLES text, result, atoms, ppc,
          bk_text, pos_text, neg_text, bk, positive_exs, negative_exs, pc, ret

vars == <<text, result, atoms, ppc,
          bk_text, pos_text, neg_text, bk, positive_exs, negative_exs, pc, ret>>

parse_vars == <<text, result, atoms, ppc>>

setup_vars == <<bk_text, pos_text, neg_text, bk, positive_exs, negative_exs, pc, ret>>

(***************************************************************************)
(* Bounds of the explored inputs.                                          *)
(***************************************************************************)
\* longest text enumerated character by character
MaxLen == 6

\* most arguments of an enumerated well-formed fact
MaxArgs == 2

\* most chunks concatenated into bk.pl, pos.pl and neg.pl
MaxBkFacts == 2

MaxPosFacts == 2

MaxNegFacts == 1

(***************************************************************************)
(* Character classes of pyparsing.                                         *)
(***************************************************************************)
alphas == {"a","b","c","d","e","f","g","h","i","j","k","l","m",
           "n","o","p","q","r","s","t","u","v","w","x","y","z",
           "A","B","C","D","E","F","G","H","I","J","K","L","M",
           "N","O","P","Q","R","S","T","U","V","W","X","Y","Z"}

nums == {"0","1","2","3","4","5","6","7","8","9"}

\* ParserElement.DEFAULT_WHITE_CHARS
DEFAULT_WHITE_CHARS == {" ", "\n", "\t", "\r"}

ToSet(s) == {s[i] : i \in 1..Len(s)}

RECURSIVE Flatten(_)
Flatten(ss) == IF ss = <<>> THEN <<>> ELSE Head(ss) \o Flatten(Tail(ss))

(***************************************************************************)
(* pyparsing primitives.  A parse step takes the text s and a 1-based      *)
(* location and yields [ok, loc, toks]: whether it matched, the location   *)
(* after the match, and the tokens it produced.                            *)
(***************************************************************************)
NoMatch == [ok |-> FALSE, loc |-> 0, toks |-> <<>>]

Match(loc, toks) == [ok |-> TRUE, loc |-> loc, toks |-> toks]

\* skip leading whitespace before a token
preParse(s, loc) ==
    CHOOSE j \in loc..(Len(s) + 1) :
        /\ \A k \in loc..(j - 1) : s[k] \in DEFAULT_WHITE_CHARS
        /\ j = Len(s) + 1 \/ s[j] \notin DEFAULT_WHITE_CHARS

\* the end of the longest run of characters of chars that starts at b
RunEnd(chars, s, b) ==
    CHOOSE j \in b..(Len(s) + 1) :
        /\ \A k \in b..(j - 1) : s[k] \in chars
        /\ j = Len(s) + 1 \/ s[j] \notin chars

\* the token s[b..e-1], a match when it is not empty
Token(s, b, e) == IF e > b THEN Match(e, <<SubSeq(s, b, e - 1)>>) ELSE NoMatch

WordAt(chars, s, b) == Token(s, b, RunEnd(chars, s, b))

\* pp.Word(chars): the longest non-empty run of characters of chars
Word(chars, s, loc) == WordAt(chars, s, preParse(s, loc))

LiteralAt(ch, s, b) == IF b <= Len(s) /\ s[b] = ch THEN Match(b + 1, <<>>) ELSE NoMatch

\* pp.Suppress(ch): the literal ch, producing no token
Suppress(ch, s, loc) == LiteralAt(ch, s, preParse(s, loc))

\* the match of p followed by the match q found after it
Join(p, q) == IF q.ok THEN Match(q.loc, p.toks \o q.toks) ELSE NoMatch

\* pp.Group of a sentence: one token carrying the results names id and args
Group(r) ==
    IF r.ok THEN Match(r.loc, <<[id |-> r.toks[1], args |-> Tail(r.toks)]>>) ELSE NoMatch

(***************************************************************************)
(* The grammar of create_parser.  A sequence P + Q is written as the rule  *)
(* P followed by a continuation that, given the match p of P, matches Q    *)
(* at p.loc.                                                               *)
(***************************************************************************)
predicate(s, loc) == Word(alphas, s, loc)

number(s, loc) == Word(nums \cup {"."}, s, loc)

variable(s, loc) == Word(alphas, s, loc)

\* number | variable (MatchFirst): the variable is tried when n failed
number_or_variable(n, s, loc) == IF n.ok THEN n ELSE variable(s, loc)

argument(s, loc) == number_or_variable(number(s, loc), s, loc)

lparen(s, loc) == Suppress("(", s, loc)

rparen(s, loc) == Suppress(")", s, loc)

comma(s, loc) == Suppress(",", s, loc)

period(s, loc) == Suppress(".", s, loc)

\* ',' + argument
comma_then_argument(c, s) == IF c.ok THEN Join(c, argument(s, c.loc)) ELSE NoMatch

comma_argument(s, loc) == comma_then_argument(comma(s, loc), s)

\* the ZeroOrMore(',' argument) of delimited_list: it stops, at loc, at the
\* first repetition r that does not match
RECURSIVE delimited_tail(_, _)
delimited_more(r, s, loc) ==
    IF r.ok THEN Join(r, delimited_tail(s, r.loc)) ELSE Match(loc, <<>>)

delimited_tail(s, loc) == delimited_more(comma_argument(s, loc), s, loc)

argument_then_tail(a, s) == IF a.ok THEN Join(a, delimited_tail(s, a.loc)) ELSE NoMatch

\* pp.delimited_list(argument, delim=',')
delimited_list(s, loc) == argument_then_tail(argument(s, loc), s)

list_then_rparen(l, s) == IF l.ok THEN Join(l, rparen(s, l.loc)) ELSE NoMatch

lparen_then_list(o, s) ==
    IF o.ok THEN Join(o, list_then_rparen(delimited_list(s, o.loc), s)) ELSE NoMatch

\* '(' delimited_list ')', named args
arguments(s, loc) == lparen_then_list(lparen(s, loc), s)

predicate_then_arguments(p, s) == IF p.ok THEN Join(p, arguments(s, p.loc)) ELSE NoMatch

\* predicate + arguments
fact(s, loc) == predicate_then_arguments(predicate(s, loc), s)

fact_then_period(f, s) == IF f.ok THEN Join(f, period(s, f.loc)) ELSE NoMatch

\* fact + '.'
sentence(s, loc) == fact_then_period(fact(s, loc), s)

group_sentence(s, loc) == Group(sentence(s, loc))

\* the repetition of OneOrMore: it stops, at loc, at the first r that does
\* not match
RECURSIVE more_sentences(_, _)
more(r, s, loc) ==
    IF r.ok THEN Join(r, more_sentences(s, r.loc)) ELSE Match(loc, <<>>)

more_sentences(s, loc) == more(group_sentence(s, loc), s, loc)

\* a repetition that also accepts no sentence at all
prolog_zero_or_more(s, loc) == more_sentences(s, loc)

first_then_more(r, s) == IF r.ok THEN Join(r, more_sentences(s, r.loc)) ELSE NoMatch

\* prolog_parser = pp.OneOrMore(pp.Group(sentence))
prolog(s, loc) == first_then_more(group_sentence(s, loc), s)

(***************************************************************************)
(* The outcome of a call: the exception it raised ("None" when it          *)
(* returned) and the value it returned (<<>> when it raised).              *)
(***************************************************************************)
Raised(e) == [exc |-> e, value |-> <<>>]

Returned(v) == [exc |-> "None", value |-> v]

NotCalled == [exc |-> "NotCalled", value |-> <<>>]

\* the end of parse_string: with parse_all, only whitespace may follow r
parse_end(r, s, parse_all) ==
    IF ~r.ok THEN Raised("ParseException")
    ELSE IF parse_all /\ preParse(s, r.loc) <= Len(s) THEN Raised("ParseException")
    ELSE Returned(r.toks)

\* ParserElement.parse_string(instring, parse_all)
parse_string(s, parse_all) == parse_end(prolog(s, 1), s, parse_all)

\* a parse_file that forgets parse_all
parse_file_partial(contents) == parse_string(contents, FALSE)

\* prolog.parse_file(filename, parse_all=True), on the contents of the file
parse_file(contents) == parse_string(contents, TRUE)

(***************************************************************************)
(* Canonical forms.                                                        *)
(***************************************************************************)
Digit(d) == CASE d = 0 -> "0" [] d = 1 -> "1" [] d = 2 -> "2" [] d = 3 -> "3"
              [] d = 4 -> "4" [] d = 5 -> "5" [] d = 6 -> "6" [] d = 7 -> "7"
              [] d = 8 -> "8" [] d = 9 -> "9"

\* str(n) of a natural number
RECURSIVE str(_)
str(n) == IF n < 10 THEN <<Digit(n)>> ELSE str(n \div 10) \o <<Digit(n % 10)>>

\* sep.join(strs)
RECURSIVE join(_, _)
join(sep, strs) ==
    IF strs = <<>> THEN <<>>
    ELSE IF Len(strs) = 1 THEN strs[1]
    ELSE strs[1] \o sep \o join(sep, Tail(strs))

\* f'{predicate.id}/{len(predicate.args)}'
to_pred_str(p) == p.id \o <<"/">> \o str(Len(p.args))

\* a to_pred that joins the arguments with ", "
to_pred_spaced(p) == p.id \o <<"(">> \o join(<<",", " ">>, p.args) \o <<")">>

\* f'{predicate.id}({",".join(predicate.args)})'
to_pred(p) == p.id \o <<"(">> \o join(<<",">>, p.args) \o <<")">>

get_pred_str_list(results) == [i \in 1..Len(results) |-> to_pred_str(results[i])]

(***************************************************************************)
(* Inputs of the parser specification: every text of at most MaxLen        *)
(* characters over Alphabet, and every well-formed single fact of at most  *)
(* MaxArgs arguments with or without a blank in each gap between tokens.    *)
(***************************************************************************)
Alphabet == {"a", "0", ".", "(", ")", ",", " "}

CharTexts == UNION {[1..n -> Alphabet] : n \in 0..MaxLen}

ArgTokens == {<<"0">>, <<"2", ".", "0">>, <<"x">>}

Gaps == {<<>>, <<" ">>}

\* the tokens of name(args).
FactTokens(name, args) ==
    <<name, <<"(">>>>
    \o [i \in 1..(2 * Len(args) - 1) |-> IF i % 2 = 1 THEN args[(i + 1) \div 2] ELSE <<",">>]
    \o << <<")">>, <<".">> >>

\* the tokens, each followed by its gap
Interleave(toks, gaps) ==
    Flatten([i \in 1..Len(toks) |-> toks[i] \o gaps[i]])

FactTexts ==
    UNION {
        {Interleave(FactTokens(<<"f">>, args), gaps) :
            gaps \in [1..(2 * Len(args) + 3) -> Gaps]} :
        args \in UNION {[1..n -> ArgTokens] : n \in 1..MaxArgs} }

(***************************************************************************)
(* The parser specification: one text is parsed, then every Predicate of   *)
(* a successful parse is re-serialised with to_pred.                        *)
(***************************************************************************)
SetupIdle ==
    /\ bk_text = <<>> /\ pos_text = <<>> /\ neg_text = <<>>
    /\ bk = NotCalled /\ positive_exs = NotCalled /\ negative_exs = NotCalled
    /\ pc = "idle" /\ ret = NotCalled

InitParse ==
    /\ text \in CharTexts \cup FactTexts
    /\ result = NotCalled
    /\ atoms = <<>>
    /\ ppc = "start"
    /\ SetupIdle

ParseFile ==
    /\ ppc = "start"
    /\ result' = parse_file(text)
    /\ ppc' = "parsed"
    /\ UNCHANGED <<text, atoms>>
    /\ UNCHANGED setup_vars

ToPred ==
    /\ ppc = "parsed"
    /\ result.exc = "None"
    /\ atoms' = [i \in 1..Len(result.value) |-> to_pred(result.value[i])]
    /\ ppc' = "converted"
    /\ UNCHANGED <<text, result>>
    /\ UNCHANGED setup_vars

NextParse == ParseFile \/ ToPred

SpecParse == InitParse /\ [][NextParse]_vars

(***************************************************************************)
(* Constant collection.  list(set(xs)) yields the distinct elements of xs  *)
(* in an order Python does not fix: every ordering is a possible result.   *)
(***************************************************************************)
list_of_set(S) ==
    {f \in [1..Cardinality(S) -> S] : \A i, j \in 1..Cardinality(S) : f[i] = f[j] => i = j}

\* res.extend(predicate.args) over the results
extend_args(results) == Flatten([i \in 1..Len(results) |-> results[i].args])

\* a collector that keeps only the first argument of every predicate
get_all_unique_args_first(results) ==
    list_of_set({results[i].args[1] : i \in 1..Len(results)})

\* get_all_unique_args: the possible results of list(set(res))
get_all_unique_args(results) == list_of_set(ToSet(extend_args(results)))

(***************************************************************************)
(* The solver's data constructors (lernd.util, lernd.lernd_types and       *)
(* lernd.classes): plain values compared by value.                         *)
(***************************************************************************)
\* position of the '/' of a signature string
SlashAt(s) == CHOOSE i \in 1..Len(s) : s[i] = "/"

DigitValue(c) == CHOOSE d \in 0..9 : Digit(d) = c

RECURSIVE int(_)
int(ds) == IF Len(ds) = 1 THEN DigitValue(ds[1])
           ELSE 10 * int(SubSeq(ds, 1, Len(ds) - 1)) + DigitValue(ds[Len(ds)])

\* str2pred('name/arity'): the predicate (name, arity)
str2pred(s) ==
    [name |-> SubSeq(s, 1, SlashAt(s) - 1), arity |-> int(SubSeq(s, SlashAt(s) + 1, Len(s)))]

\* str2ground_atom('name(args)'): the ground atom, kept in its canonical text
str2ground_atom(s) == s

Constant(c) == c

RuleTemplate(v, allow_intensional) == <<[v |-> v, allow_intensional |-> allow_intensional]>>

\* the None of a missing second rule template
None == <<>>

LanguageModel(target_pred, preds_ext, constants) ==
    [target |-> target_pred, preds_ext |-> preds_ext, constants |-> constants]

ProgramTemplate(aux_preds, rules, forward_chaining_steps) ==
    [preds_aux |-> aux_preds, rules |-> rules,
     forward_chaining_steps |-> forward_chaining_steps]

ILP(name, language_model, background_axioms, positive_examples, negative_examples) ==
    [name |-> name, language_model |-> language_model,
     background_axioms |-> background_axioms,
     positive_examples |-> positive_examples,
     negative_examples |-> negative_examples]

(***************************************************************************)
(* setup_custom.                                                           *)
(***************************************************************************)
\* example_path.name
problem_name == "even"

\* the signature string 'pred/2' of the auxiliary predicate
aux_pred_str == <<"p", "r", "e", "d", "/", "2">>

forward_chaining_steps == 6

\* the dict literal {target_pred: ..., aux_pred: ...}: the later entry wins
\* when both keys are equal
rules_of(target_pred, aux_pred) ==
    [k \in {target_pred, aux_pred} |->
        IF k = aux_pred THEN <<RuleTemplate(1, FALSE), None>>
        ELSE <<RuleTemplate(0, FALSE), RuleTemplate(1, TRUE)>>]

\* a pipeline that reads the signatures of the background in reverse
preds_ext_reversed(results) ==
    LET l == get_pred_str_list(results)
    IN  [i \in 1..Len(l) |-> str2pred(l[Len(l) + 1 - i])]

\* list(map(str2pred, get_pred_str_list(bk)))
preds_ext_of(results) ==
    LET l == get_pred_str_list(results) IN [i \in 1..Len(l) |-> str2pred(l[i])]

\* [str2ground_atom(to_pred(predicate)) for predicate in results]
ground_atoms_of(results) ==
    [i \in 1..Len(results) |-> str2ground_atom(to_pred(results[i]))]

\* the possible constant lists: list(set(a + b + c)) over the three collectors
constants_of(bk_r, pos_r, neg_r) ==
    UNION {list_of_set(ToSet(a \o b \o c)) :
              a \in get_all_unique_args(bk_r),
              b \in get_all_unique_args(pos_r),
              c \in get_all_unique_args(neg_r)}

(***************************************************************************)
(* Inputs of the assembler specification: each file is a concatenation of  *)
(* a few chunks, well-formed facts (some with whitespace) and broken ones.  *)
(***************************************************************************)
RECURSIVE Texts(_, _)
Texts(chunks, n) ==
    IF n = 0 THEN {<<>>}
    ELSE Texts(chunks, n - 1) \cup {t \o c : t \in Texts(chunks, n - 1), c \in chunks}

BkChunks ==
    { <<"z","e","r","o","(","0",")",".">>,
      <<"\n","s","u","c","c","(","0",",","1",")",".">>,
      <<"s","u","c","c","(","1",","," ","2",")",".">>,
      <<"z","e","r","o","(","0">> }

PosChunks ==
    { <<"e","v","e","n","(","0",")",".">>,
      <<"\n","e","v","e","n","(","2",")",".">>,
      <<"p","r","e","d","(","0",",","1",")",".">>,
      <<"e","v","e","n","(">>,
      <<"\n">> }

NegChunks ==
    { <<"e","v","e","n","(","1",")",".">>,
      <<"e","v","e","n","(","1">> }

ParseIdle == text = <<>> /\ result = NotCalled /\ atoms = <<>> /\ ppc = "idle"

Init ==
    /\ bk_text \in Texts(BkChunks, MaxBkFacts)
    /\ pos_text \in Texts(PosChunks, MaxPosFacts)
    /\ neg_text \in Texts(NegChunks, MaxNegFacts)
    /\ bk = NotCalled /\ positive_exs = NotCalled /\ negative_exs = NotCalled
    /\ pc = "start"
    /\ ret = NotCalled
    /\ ParseIdle

\* bk = parse_file(bk_file)
ParseBk ==
    /\ pc = "start"
    /\ bk' = parse_file(bk_text)
    /\ IF bk'.exc = "None"
       THEN pc' = "bk_parsed" /\ ret' = ret
       ELSE pc' = "raised" /\ ret' = Raised(bk'.exc)
    /\ UNCHANGED <<bk_text, pos_text, neg_text, positive_exs, negative_exs>>
    /\ UNCHANGED parse_vars

\* a step that keeps going with an empty list when the parse raises
ParsePos_swallow ==
    /\ pc = "bk_parsed"
    /\ positive_exs' = parse_file(pos_text)
    /\ pc' = "pos_parsed"
    /\ UNCHANGED <<bk_text, pos_text, neg_text, bk, negative_exs, ret>>
    /\ UNCHANGED parse_vars

\* positive_exs = parse_file(positive_exs_file)
ParsePos ==
    /\ pc = "bk_parsed"
    /\ positive_exs' = parse_file(pos_text)
    /\ IF positive_exs'.exc = "None"
       THEN pc' = "pos_parsed" /\ ret' = ret
       ELSE pc' = "raised" /\ ret' = Raised(positive_exs'.exc)
    /\ UNCHANGED <<bk_text, pos_text, neg_text, bk, negative_exs>>
    /\ UNCHANGED parse_vars

\* negative_exs = parse_file(negative_exs_file)
ParseNeg ==
    /\ pc = "pos_parsed"
    /\ negative_exs' = parse_file(neg_text)
    /\ IF negative_exs'.exc = "None"
       THEN pc' = "neg_parsed" /\ ret' = ret
       ELSE pc' = "raised" /\ ret' = Raised(negative_exs'.exc)
    /\ UNCHANGED <<bk_text, pos_text, neg_text, bk, positive_exs>>
    /\ UNCHANGED parse_vars

\* the language model, the program template and the ILP problem
Build ==
    /\ pc = "neg_parsed"
    /\ IF Len(positive_exs.value) = 0
       THEN \* positive_exs[0] on an empty list
            pc' = "raised" /\ ret' = Raised("IndexError")
       ELSE \E constants \in constants_of(bk.value, positive_exs.value, negative_exs.value) :
            LET target_pred == str2pred(to_pred_str(positive_exs.value[1]))
                preds_ext == preds_ext_of(bk.value)
                language_model ==
                    LanguageModel(target_pred, preds_ext,
                                  [i \in 1..Len(constants) |-> Constant(constants[i])])
                aux_pred == str2pred(aux_pred_str)
                aux_preds == <<aux_pred>>
                rules == rules_of(target_pred, aux_pred)
                program_template ==
                    ProgramTemplate(aux_preds, rules, forward_chaining_steps)
                ilp_problem ==
                    ILP(problem_name, language_model,
                        ground_atoms_of(bk.value),
                        ground_atoms_of(positive_exs.value),
                        ground_atoms_of(negative_exs.value))
            IN  /\ ret' = Returned(<<ilp_problem, program_template>>)
                /\ pc' = "returned"
    /\ UNCHANGED <<bk_text, pos_text, neg_text, bk, positive_exs, negative_exs>>
    /\ UNCHANGED parse_vars

Next == ParseBk \/ ParsePos \/ ParseNeg \/ Build

Spec == Init /\ [][Next]_vars

(***************************************************************************)
(* Properties of the parser.                                               *)
(***************************************************************************)
StripWS(s) == SelectSeq(s, LAMBDA c : c \notin DEFAULT_WHITE_CHARS)

HasNonWhite(s) == \E i \in 1..Len(s) : s[i] \notin DEFAULT_WHITE_CHARS

\* the facts name(args). of a Predicate list, written without whitespace
Serialize(preds) ==
    Flatten([i \in 1..Len(preds) |-> to_pred(preds[i]) \o <<".">>])

IsAlphabetic(tok) == Len(tok) >= 1 /\ \A i \in 1..Len(tok) : tok[i] \in alphas

IsNumericLiteral(tok) ==
    /\ \A i \in 1..Len(tok) : tok[i] \in nums \cup {"."}
    /\ \E i \in 1..Len(tok) : tok[i] \in nums
    /\ Cardinality({i \in 1..Len(tok) : tok[i] = "."}) <= 1

\* text splits after position k into a valid sequence of facts and a
\* non-blank rest that is no sequence of complete facts
ValidPrefixBrokenSuffix(k) ==
    /\ parse_file(SubSeq(text, 1, k)).exc = "None"
    /\ HasNonWhite(SubSeq(text, k + 1, Len(text)))
    /\ parse_file(SubSeq(text, k + 1, Len(text))).exc # "None"

\* C3: every Predicate of a successful parse has at least one argument and
\* every argument token is alphabetic or a numeric literal with at least
\* one digit and at most one decimal point.
C3_ArgsWellFormed ==
    (ppc # "start" /\ result.exc = "None") =>
        \A i \in 1..Len(result.value) :
            /\ Len(result.value[i].args) >= 1
            /\ \A j \in 1..Len(result.value[i].args) :
                   \/ IsAlphabetic(result.value[i].args[j])
                   \/ IsNumericLiteral(result.value[i].args[j])

\* C4: a parse either returns the Predicates of the whole text (every
\* non-blank character accounted for) or raises and returns nothing; a
\* valid prefix followed by a broken non-blank suffix raises.
C4_ParseAllOrNothing ==
    ppc # "start" =>
        /\ result.exc \in {"None", "ParseException"}
        /\ result.exc = "None" =>
               /\ Len(result.value) >= 1
               /\ Serialize(result.value) = StripWS(text)
        /\ result.exc = "ParseException" => result.value = <<>>
        /\ \A k \in 1..(Len(text) - 1) :
               ValidPrefixBrokenSuffix(k) => result = Raised("ParseException")

C4_Witness ==
    /\ ppc = "parsed"
    /\ result = Raised("ParseException")
    /\ \E k \in 1..(Len(text) - 1) : ValidPrefixBrokenSuffix(k)

\* C5: the Predicate parsed from a single valid fact re-serialises with
\* to_pred to the text without its whitespace and without the final period.
C5_RoundTrip ==
    (ppc = "converted" /\ Len(result.value) = 1) =>
        LET n == StripWS(text)
        IN  /\ n[Len(n)] = "."
            /\ atoms = <<SubSeq(n, 1, Len(n) - 1)>>

C5_Witness ==
    /\ ppc = "converted"
    /\ Len(result.value) = 1
    /\ HasNonWhite(text) /\ StripWS(text) # text
    /\ Len(result.value[1].args) = 2
    /\ result.value[1].args[2] = <<"2", ".", "0">>

(***************************************************************************)
(* Properties of the assembler.                                            *)
(***************************************************************************)
\* the signature (name, arity) of a parsed Predicate
Sig(p) == [name |-> p.id, arity |-> Len(p.args)]

Sigs(results) == [i \in 1..Len(results) |-> Sig(results[i])]

NoDuplicates(l) == \A i, j \in 1..Len(l) : l[i] = l[j] => i = j

FirstIndex(l, x) == CHOOSE i \in 1..Len(l) : l[i] = x /\ \A j \in 1..(i - 1) : l[j] # x

\* the argument tokens occurring in a Predicate list
ArgsOf(results) == UNION {ToSet(results[i].args) : i \in 1..Len(results)}

Terminated == pc \in {"raised", "returned"}

ilp_problem == ret.value[1]

program_template == ret.value[2]

\* C1: the extensional list holds every background signature exactly once,
\* ordered by first occurrence in the background.
C1_ExtensionalDeduplicated ==
    pc = "returned" =>
        LET ext == ilp_problem.language_model.preds_ext
            sigs == Sigs(bk.value)
        IN  /\ NoDuplicates(ext)
            /\ ToSet(ext) = ToSet(sigs)
            /\ \A i, j \in 1..Len(ext) :
                   i < j => FirstIndex(sigs, ext[i]) < FirstIndex(sigs, ext[j])

\* pos.pl holds no fact while bk.pl and neg.pl are valid
EmptyPositive ==
    /\ ~HasNonWhite(pos_text)
    /\ parse_file(bk_text).exc = "None"
    /\ parse_file(neg_text).exc = "None"

\* C2 as stated: an empty pos.pl ends the assembly in EmptyExamplesError.
C2_EmptyExamplesError ==
    (Terminated /\ EmptyPositive) => ret = Raised("EmptyExamplesError")

\* C2 as amended: an empty pos.pl ends the assembly in the parser's
\* ParseException, and a returned problem always has its target taken from
\* a first positive example.
C2_EmptyPositiveParseException ==
    /\ (Terminated /\ EmptyPositive) => ret = Raised("ParseException")
    /\ pc = "returned" =>
           /\ Len(positive_exs.value) >= 1
           /\ ilp_problem.language_model.target = Sig(positive_exs.value[1])

C2_Witness ==
    /\ pc = "raised"
    /\ EmptyPositive
    /\ bk.exc = "None"
    /\ positive_exs = Raised("ParseException")

\* C6: the constants hold every argument token of the three files exactly
\* once and nothing else, whatever the order of the facts.
C6_ConstantsUnion ==
    pc = "returned" =>
        LET cs == ilp_problem.language_model.constants
        IN  /\ NoDuplicates(cs)
            /\ ToSet(cs) = ArgsOf(bk.value) \cup ArgsOf(positive_exs.value)
                             \cup ArgsOf(negative_exs.value)

C6_Witness ==
    /\ pc = "returned"
    /\ Len(ilp_problem.language_model.constants) = 3
    /\ ArgsOf(bk.value) \cap ArgsOf(negative_exs.value) # {}
    /\ ArgsOf(positive_exs.value) \ ArgsOf(bk.value) # {}
    /\ Len(extend_args(bk.value)) > Cardinality(ArgsOf(bk.value))

\* the files of the worked example
ExampleFiles ==
    /\ bk_text = <<"z","e","r","o","(","0",")",".",
                   "\n","s","u","c","c","(","0",",","1",")",".">>
    /\ pos_text = <<"e","v","e","n","(","0",")",".",
                    "\n","e","v","e","n","(","2",")",".">>
    /\ neg_text = <<"e","v","e","n","(","1",")",".">>

\* the example's outcome apart from its constants
ExampleOutcome ==
    /\ ilp_problem.language_model.target = [name |-> <<"e","v","e","n">>, arity |-> 1]
    /\ ilp_problem.language_model.preds_ext =
           << [name |-> <<"z","e","r","o">>, arity |-> 1],
              [name |-> <<"s","u","c","c">>, arity |-> 2] >>
    /\ ToSet(ilp_problem.positive_examples) =
           { <<"e","v","e","n","(","0",")">>, <<"e","v","e","n","(","2",")">> }
    /\ ToSet(ilp_problem.negative_examples) = { <<"e","v","e","n","(","1",")">> }
    /\ ToSet(ilp_problem.background_axioms) =
           { <<"z","e","r","o","(","0",")">>, <<"s","u","c","c","(","0",",","1",")">> }

\* C7 as stated: the worked example yields the constants {0, 1}.
C7_WorkedExample ==
    (ExampleFiles /\ Terminated) =>
        /\ pc = "returned"
        /\ ExampleOutcome
        /\ ToSet(ilp_problem.language_model.constants) = { <<"0">>, <<"1">> }

\* C7 as amended: the worked example yields the constants {0, 1, 2}, the 2
\* coming from even(2) of pos.pl.
C7_WorkedExampleAmended ==
    (ExampleFiles /\ Terminated) =>
        /\ pc = "returned"
        /\ ExampleOutcome
        /\ ToSet(ilp_problem.language_model.constants) = { <<"0">>, <<"1">>, <<"2">> }

C7_Witness == ExampleFiles /\ pc = "returned"

\* C8: whatever the target, the template has the one auxiliary predicate
\* pred/2, six forward-chaining steps, and rules mapping the target to
\* (slot 0 not existential, slot 1 existential) and pred/2 to (slot 1 not
\* existential, absent).
C8_TemplateShape ==
    pc = "returned" =>
        LET target == Sig(positive_exs.value[1])
            aux == [name |-> <<"p","r","e","d">>, arity |-> 2]
        IN  /\ program_template.preds_aux = <<aux>>
            /\ program_template.forward_chaining_steps = 6
            /\ DOMAIN program_template.rules = {target, aux}
            /\ program_template.rules[target] =
                   <<RuleTemplate(0, FALSE), RuleTemplate(1, TRUE)>>
            /\ program_template.rules[aux] = <<RuleTemplate(1, FALSE), None>>

\* C9: the files are parsed in the order bk, pos, neg; a failing parse ends
\* the call in that ParseException with nothing returned, and a problem is
\* returned only when all three parses succeeded.
C9_AllOrNothing ==
    /\ positive_exs # NotCalled => bk.exc = "None"
    /\ negative_exs # NotCalled => positive_exs.exc = "None"
    /\ ~Terminated => ret = NotCalled
    /\ pc = "raised" => ret = Raised("ParseException")
    /\ pc = "returned" =>
           /\ bk.exc = "None" /\ positive_exs.exc = "None" /\ negative_exs.exc = "None"
           /\ ret.exc = "None" /\ Len(ret.value) = 2
    /\ (Terminated /\ \E t \in {bk_text, pos_text, neg_text} : parse_file(t).exc # "None")
           => ret = Raised("ParseException")

C9_Witness ==
    /\ pc = "raised"
    /\ bk.exc = "None" /\ Len(bk.value) >= 1
    /\ positive_exs.exc = "None" /\ Len(positive_exs.value) >= 1
    /\ negative_exs = Raised("ParseException")
    /\ ret = Raised("ParseException")

\* the collection holds the ground atom of every Predicate of its file,
\* nothing else, and each only once
IsAtomSetOf(collection, results) ==
    /\ NoDuplicates(collection)
    /\ ToSet(collection) = {to_pred(results[i]) : i \in 1..Len(results)}

\* C10: background, positive and negative are sets of ground atoms: a fact
\* written twice in a file appears once in its collection.
C10_GroundAtomSets ==
    pc = "returned" =>
        /\ IsAtomSetOf(ilp_problem.background_axioms, bk.value)
        /\ IsAtomSetOf(ilp_problem.positive_examples, positive_exs.value)
        /\ IsAtomSetOf(ilp_problem.negative_examples, negative_exs.value)

====
